---- MODULE Spec2Model ----
(***************************************************************************)
(* Non-Steam shortcut subsystem of zladxhd-installer (internal/steam):     *)
(* the Shortcut entity, its mapping to and from vdf.Map, the shortcuts.vdf *)
(* file of one user, GenerateAppID and the Add / Update / Find / Remove    *)
(* operations.                                                             *)
(*                                                                         *)
(* vdf.Map is a Go map (it is built with keyed composite literals and read *)
(* with comma-ok index expressions), so `for _, v := range shortcutsMap`   *)
(* visits the entries in an order the language leaves unspecified.  The    *)
(* model draws that order from every permutation of the keys.              *)
(***************************************************************************)
EXTENDS Integers, Sequences, FiniteSets, TLC

VARIABLES file, ret, run, input, call, callers, install

vars == <<file, ret, run, input, call, callers, install>>

(***************************** bounds **************************************)
\* most entries a collection may hold before the model stops growing it
MaxShortcuts == 2
\* the number of attempts after which a capped retry loop would have to stop
RetryCap == 3

(***************************** uint32 **************************************)
\* TLC's integers stop below 2^31, so a uint32 is the pair <<hi, lo>> of its
\* top 8 bits and its low 24 bits: the value is hi * 2^24 + lo
TwoTo24 == 4096 * 4096
TwoTo8 == 16 * 16

Zero32 == <<0, 0>>
One32 == <<0, 1>>

\* uint32(n) for an integer 0 <= n < 2^31
ToUint32(n) == <<(n \div TwoTo24) % TwoTo8, n % TwoTo24>>

\* a + b in 32-bit unsigned arithmetic (the carry out of bit 31 is dropped)
Add32(a, b) ==
    <<(a[1] + b[1] + ((a[2] + b[2]) \div TwoTo24)) % TwoTo8,
      (a[2] + b[2]) % TwoTo24>>

\* whether a + b exceeds 2^32 - 1
Carries32(a, b) == a[1] + b[1] + ((a[2] + b[2]) \div TwoTo24) >= TwoTo8

\* a - b in 32-bit unsigned arithmetic
Sub32(a, b) ==
    LET borrow == IF a[2] < b[2] THEN 1 ELSE 0
    IN  <<(a[1] - b[1] - borrow + TwoTo8) % TwoTo8,
          (a[2] - b[2] + TwoTo24) % TwoTo24>>

Leq32(a, b) == a[1] < b[1] \/ (a[1] = b[1] /\ a[2] <= b[2])

\* int64(x) for a uint32 below 2^31
Int64(x) == x[1] * TwoTo24 + x[2]

(*************************** program constants *****************************)
\* 0xFF000000 and 0xFFFFFFFF
minID == <<255, 0>>
maxID == <<255, TwoTo24 - 1>>

(***************************** VDF values **********************************)
\* a vdf.Map value is a uint32, a string or a nested vdf.Map
U(n) == [type |-> "uint32", u |-> n]
S(s) == [type |-> "string", s |-> s]
M(m) == [type |-> "map", m |-> m]

EmptyMap == [k \in {} |-> U(Zero32)]

\* faulty variant of AsUint32: a value of another type is taken for 1
AsUint32_Coerced(m, key) ==
    IF key \in DOMAIN m
    THEN IF m[key].type = "uint32" THEN m[key].u ELSE One32
    ELSE Zero32

\* m[key].(uint32) with the zero value when the key is absent or not a uint32
AsUint32(m, key) ==
    IF key \in DOMAIN m /\ m[key].type = "uint32" THEN m[key].u ELSE Zero32

\* m[key].(string) with the zero value when the key is absent or not a string
AsString(m, key) ==
    IF key \in DOMAIN m /\ m[key].type = "string" THEN m[key].s ELSE ""

(***************************** strings *************************************)
\* a path is a sequence of tokens, "/" being the separator
RECURSIVE Str(_)
Str(tokens) ==
    IF tokens = <<>> THEN "" ELSE Head(tokens) \o Str(Tail(tokens))

\* the path without the separators that follow a separator
RECURSIVE Squeeze(_)
Squeeze(path) ==
    IF Len(path) < 2 THEN path
    ELSE IF path[1] = "/" /\ path[2] = "/" THEN Squeeze(Tail(path))
    ELSE <<Head(path)>> \o Squeeze(Tail(path))

\* filepath.Clean for paths without "." and ".." elements: repeated
\* separators become one, a trailing separator goes unless the path is the
\* root, the empty path becomes "."
Clean(path) ==
    LET s == Squeeze(path)
    IN  IF s = <<>> THEN <<".">>
        ELSE IF Len(s) > 1 /\ s[Len(s)] = "/" THEN SubSeq(s, 1, Len(s) - 1)
        ELSE s

\* filepath.Dir: Clean of the path up to and including its last separator
Dir(path) ==
    LET slashes == {i \in 1..Len(path) : path[i] = "/"}
    IN  IF slashes = {} THEN <<".">>
        ELSE Clean(SubSeq(path, 1,
                          CHOOSE i \in slashes : \A j \in slashes : j <= i))

\* fmt.Sprintf("\"%s\"", s)
Quote(s) == "\"" \o s \o "\""

(***************************** Shortcut ************************************)
ZeroShortcut ==
    [AppID |-> Zero32, AppName |-> "", Exe |-> "", StartDir |-> "", Icon |-> "",
     ShortcutPath |-> "", LaunchOptions |-> "", IsHidden |-> Zero32,
     AllowDesktopConfig |-> Zero32, AllowOverlay |-> Zero32, OpenVR |-> Zero32, Devkit |-> Zero32,
     DevkitGameID |-> "", DevkitOverrideAppID |-> Zero32, LastPlayTime |-> Zero32,
     FlatpakAppID |-> "", Tags |-> [k \in {} |-> ""]]

\* faulty variant of NewShortcut: StartDir is the path of the executable
NewShortcut_DirOfExe(appName, exePath) ==
    [AppID |-> Zero32, AppName |-> appName, Exe |-> Quote(Str(exePath)),
     StartDir |-> Quote(Str(exePath)), Icon |-> "",
     ShortcutPath |-> "", LaunchOptions |-> "", IsHidden |-> Zero32,
     AllowDesktopConfig |-> One32, AllowOverlay |-> One32, OpenVR |-> Zero32, Devkit |-> Zero32,
     DevkitGameID |-> "", DevkitOverrideAppID |-> Zero32, LastPlayTime |-> Zero32,
     FlatpakAppID |-> "", Tags |-> [k \in {} |-> ""]]

NewShortcut(appName, exePath) ==
    [AppID |-> Zero32, AppName |-> appName, Exe |-> Quote(Str(exePath)),
     StartDir |-> Quote(Str(Dir(exePath))), Icon |-> "",
     ShortcutPath |-> "", LaunchOptions |-> "", IsHidden |-> Zero32,
     AllowDesktopConfig |-> One32, AllowOverlay |-> One32, OpenVR |-> Zero32, Devkit |-> Zero32,
     DevkitGameID |-> "", DevkitOverrideAppID |-> Zero32, LastPlayTime |-> Zero32,
     FlatpakAppID |-> "", Tags |-> [k \in {} |-> ""]]

parseShortcutEntry(m) ==
    [AppID |-> AsUint32(m, "appid"),
     AppName |-> AsString(m, "AppName"),
     Exe |-> AsString(m, "Exe"),
     StartDir |-> AsString(m, "StartDir"),
     Icon |-> AsString(m, "icon"),
     ShortcutPath |-> AsString(m, "ShortcutPath"),
     LaunchOptions |-> AsString(m, "LaunchOptions"),
     IsHidden |-> AsUint32(m, "IsHidden"),
     AllowDesktopConfig |-> AsUint32(m, "AllowDesktopConfig"),
     AllowOverlay |-> AsUint32(m, "AllowOverlay"),
     OpenVR |-> AsUint32(m, "OpenVR"),
     Devkit |-> AsUint32(m, "Devkit"),
     DevkitGameID |-> AsString(m, "DevkitGameID"),
     DevkitOverrideAppID |-> AsUint32(m, "DevkitOverrideAppID"),
     LastPlayTime |-> AsUint32(m, "LastPlayTime"),
     FlatpakAppID |-> AsString(m, "FlatpakAppID"),
     Tags |-> IF "tags" \in DOMAIN m /\ m["tags"].type = "map"
              THEN LET tags == m["tags"].m
                       keep == {k \in DOMAIN tags : tags[k].type = "string"}
                   IN  [k \in keep |-> tags[k].s]
              ELSE [k \in {} |-> ""]]

toVDFMap(s) ==
    [k \in {"appid", "AppName", "Exe", "StartDir", "icon", "ShortcutPath",
            "LaunchOptions", "IsHidden", "AllowDesktopConfig", "AllowOverlay",
            "OpenVR", "Devkit", "DevkitGameID", "DevkitOverrideAppID",
            "LastPlayTime", "FlatpakAppID", "tags"} |->
        CASE k = "appid" -> U(s.AppID)
          [] k = "AppName" -> S(s.AppName)
          [] k = "Exe" -> S(s.Exe)
          [] k = "StartDir" -> S(s.StartDir)
          [] k = "icon" -> S(s.Icon)
          [] k = "ShortcutPath" -> S(s.ShortcutPath)
          [] k = "LaunchOptions" -> S(s.LaunchOptions)
          [] k = "IsHidden" -> U(s.IsHidden)
          [] k = "AllowDesktopConfig" -> U(s.AllowDesktopConfig)
          [] k = "AllowOverlay" -> U(s.AllowOverlay)
          [] k = "OpenVR" -> U(s.OpenVR)
          [] k = "Devkit" -> U(s.Devkit)
          [] k = "DevkitGameID" -> S(s.DevkitGameID)
          [] k = "DevkitOverrideAppID" -> U(s.DevkitOverrideAppID)
          [] k = "LastPlayTime" -> U(s.LastPlayTime)
          [] k = "FlatpakAppID" -> S(s.FlatpakAppID)
          [] k = "tags" -> M([t \in DOMAIN s.Tags |-> S(s.Tags[t])])]

(****************************** the file ***********************************)
\* shortcuts.vdf: missing, missing together with its directory, unreadable
\* (os.ReadFile fails with another error), zero-length, bytes that
\* vdf.ReadBinary rejects, or bytes that it decodes to the vdf.Map held in `map`
Missing == [kind |-> "missing", map |-> EmptyMap]
NoDirectory == [kind |-> "nodir", map |-> EmptyMap]
Unreadable == [kind |-> "unreadable", map |-> EmptyMap]
ZeroLength == [kind |-> "empty", map |-> EmptyMap]
Corrupt == [kind |-> "corrupt", map |-> EmptyMap]
Vdf(m) == [kind |-> "vdf", map |-> m]

\* faulty variant of ReadError: a missing file is reported like any other
\* read failure
ReadError_NotExistFails(f) ==
    CASE f.kind = "missing" -> "failed to read shortcuts file"
      [] f.kind = "nodir" -> ""
      [] f.kind = "unreadable" -> "failed to read shortcuts file"
      [] f.kind = "empty" -> ""
      [] f.kind = "corrupt" -> "failed to parse shortcuts VDF"
      [] OTHER -> ""

\* the error ReadShortcuts returns, "" for nil
ReadError(f) ==
    CASE f.kind = "missing" -> ""
      [] f.kind = "nodir" -> ""
      [] f.kind = "unreadable" -> "failed to read shortcuts file"
      [] f.kind = "empty" -> ""
      [] f.kind = "corrupt" -> "failed to parse shortcuts VDF"
      [] OTHER -> ""

\* fmt.Sprintf("%d", i) for the indices the model reaches
Itoa(i) ==
    CASE i = 0 -> "0" [] i = 1 -> "1" [] i = 2 -> "2" [] i = 3 -> "3"
      [] i = 4 -> "4" [] i = 5 -> "5" [] i = 6 -> "6" [] OTHER -> "7"

\* every order in which a range over a map with these keys may visit them
Orders(keys) ==
    {o \in [1..Cardinality(keys) -> keys] :
        \A i, j \in 1..Cardinality(keys) : i # j => o[i] # o[j]}

\* the children of "shortcuts" that ReadShortcuts turns into entries
EntryKeys(f) ==
    IF /\ f.kind = "vdf"
       /\ "shortcuts" \in DOMAIN f.map
       /\ f.map["shortcuts"].type = "map"
    THEN LET sm == f.map["shortcuts"].m
         IN  {k \in DOMAIN sm : sm[k].type = "map"}
    ELSE {}

\* ReadShortcuts when the range over shortcutsMap visits the keys in `order`
ReadShortcuts(f, order) ==
    [k \in 1..Len(order) |->
        parseShortcutEntry(f.map["shortcuts"].m[order[k]].m)]

\* every slice ReadShortcuts may return for this file
ReadResults(f) == {ReadShortcuts(f, o) : o \in Orders(EntryKeys(f))}

\* faulty variant of WriteShortcuts: the keys count from 1
WriteShortcuts_FromOne(shortcuts) ==
    Vdf([t \in {"shortcuts"} |->
           M([k \in {Itoa(i) : i \in 1..Len(shortcuts)} |->
                LET i == CHOOSE j \in 1..Len(shortcuts) : Itoa(j) = k
                IN  M(toVDFMap(shortcuts[i]))])])

\* the content WriteShortcuts stores
WriteShortcuts(shortcuts) ==
    Vdf([t \in {"shortcuts"} |->
           M([k \in {Itoa(i - 1) : i \in 1..Len(shortcuts)} |->
                LET i == CHOOSE j \in 1..Len(shortcuts) : Itoa(j - 1) = k
                IN  M(toVDFMap(shortcuts[i]))])])

(*************************** GenerateAppID *********************************)
\* rangeSize := int64(maxID - minID)
rangeSize == Int64(Sub32(maxID, minID))

\* the values the model lets rand.Int draw from (those below its argument):
\* the lowest offsets and the values around the size of the reserved range
RandSamples == {0, 1, TwoTo24 - 2, TwoTo24 - 1, TwoTo24}

\* rand.Int(rand.Reader, max): a value in [0, max)
RandInt(max) == {n \in RandSamples : n < max}

\* faulty variant of GenerateAppID: the offset is returned without the base
GenerateAppID_NoBase(n) == ToUint32(n)

\* minID + uint32(n.Int64()) in 32-bit unsigned arithmetic
GenerateAppID(n) == Add32(minID, ToUint32(n))

(***************************** inputs **************************************)
Names == {"Game A", "Game B"}
ExePaths == {<<"/", "a", "/", "a.exe">>, <<"/", "other", "/", "b.exe">>}
\* the AppID a caller supplies: 0xFF000001
SuppliedIDs == {<<255, 1>>}
TagSets == {[k \in {} |-> ""], [k \in {"0"} |-> "favorite"]}

\* shortcuts as callers of add and update build them: the factory's result
\* with the AppID left 0 or set
InputShortcuts ==
    {[NewShortcut(n, e) EXCEPT !.AppID = id] :
        n \in Names, e \in ExePaths, id \in {Zero32} \cup SuppliedIDs}

\* the AppIDs of the slices callers hand to write: 0xFF000001, 0xFF000002
WrittenIDs == {<<255, 1>>, <<255, 2>>}

\* shortcuts as callers of write build them: AppID and Tags filled in
TaggedShortcuts ==
    {[NewShortcut(n, e) EXCEPT !.AppID = id, !.Tags = t] :
        n \in Names, e \in ExePaths, id \in WrittenIDs, t \in TagSets}

(************************ results of the last call *************************)
NoShortcuts == <<>>

Result(op, err, appID, isNew, shortcuts, arg, argID, offset) ==
    [op |-> op, err |-> err, appID |-> appID, isNew |-> isNew,
     shortcuts |-> shortcuts, arg |-> arg, argID |-> argID, offset |-> offset]

\* first index whose entry satisfies the test, 0 when there is none
FirstByName(shortcuts, name) ==
    IF \E i \in 1..Len(shortcuts) : shortcuts[i].AppName = name
    THEN CHOOSE i \in 1..Len(shortcuts) :
            /\ shortcuts[i].AppName = name
            /\ \A j \in 1..(i - 1) : shortcuts[j].AppName # name
    ELSE 0

FirstByAppID(shortcuts, appID) ==
    IF \E i \in 1..Len(shortcuts) : shortcuts[i].AppID = appID
    THEN CHOOSE i \in 1..Len(shortcuts) :
            /\ shortcuts[i].AppID = appID
            /\ \A j \in 1..(i - 1) : shortcuts[j].AppID # appID
    ELSE 0

\* faulty variant of Conflict: the candidate is never compared
Conflict_Unchecked(shortcuts, appID) == FALSE

\* the conflict test of the retry loop
Conflict(shortcuts, appID) ==
    \E i \in 1..Len(shortcuts) : shortcuts[i].AppID = appID

\* the filter of RemoveShortcut
RECURSIVE Filtered(_, _)
Filtered(shortcuts, appID) ==
    IF shortcuts = <<>> THEN <<>>
    ELSE IF Head(shortcuts).AppID # appID
         THEN <<Head(shortcuts)>> \o Filtered(Tail(shortcuts), appID)
         ELSE Filtered(Tail(shortcuts), appID)

\* the calls that run side by side
Callers == {1, 2}

\* a call that has not started: what it read, what it will write and what it
\* returns are filled in as it runs
IdleFrame ==
    [pc |-> "idle", op |-> "none", arg |-> ZeroShortcut, argID |-> Zero32,
     shortcuts |-> NoShortcuts, towrite |-> NoShortcuts, err |-> "",
     appID |-> Zero32, isNew |-> FALSE]

\* no call has started; `log` lists the reads and writes in the order in
\* which they happen
NoCallers == [frame |-> [p \in Callers |-> IdleFrame], log |-> <<>>]

(************************ the install state ********************************)
\* a pointer is the empty sequence (nil) or a sequence of one element
Nil == <<>>

\* InstallState as &InstallState{} leaves it
ZeroInstallState ==
    [StartedAt |-> Nil, CompletedAt |-> Nil, ArchiveChecksum |-> "",
     InstallDir |-> "", SteamUserID |-> "", AppID |-> Zero32, Steps |-> <<>>]

\* the manager before NewManager has run: no state in memory, no pointer to
\* a step with the caller, no state.json on disk
NoInstall == [state |-> Nil, held |-> Nil, disk |-> [kind |-> "missing"]]

\* most steps an install state may hold before the model stops growing it
MaxSteps == 2

StepNames == {"download", "extract"}

\* the instant time.Now() returns
Times == {1}

\* the errors handed to Fail: nil and fmt.Errorf("test error message")
Errors == {Nil, <<"test error message">>}

\* Step{Name: name, Status: StepPending}
NewStep(name) ==
    [Name |-> name, Status |-> "pending", StartedAt |-> Nil,
     CompletedAt |-> Nil, Error |-> ""]

\* (*Step).Start
Start(step, now) ==
    [step EXCEPT !.Status = "running", !.StartedAt = <<now>>]

\* (*Step).Complete
Complete(step, now) ==
    [step EXCEPT !.Status = "completed", !.CompletedAt = <<now>>]

\* (*Step).Fail
Fail(step, now, err) ==
    [step EXCEPT !.Status = "failed", !.CompletedAt = <<now>>,
                 !.Error = IF err # Nil THEN err[1] ELSE @]

\* faulty variant of Skip: the step is stamped like a completed one
Skip_Stamped(step) ==
    [step EXCEPT !.Status = "skipped", !.CompletedAt = <<1>>]

\* (*Step).Skip
Skip(step) ==
    [step EXCEPT !.Status = "skipped"]

\* cap(s.Steps) for a slice that append has grown from make([]Step, 0): the
\* runtime doubles the capacity of a full small slice
Cap(len) ==
    IF len <= 2 THEN len ELSE IF len <= 4 THEN 4 ELSE 8

\* a *Step: into the array of Steps at index idx while `live`, else into an
\* array that Steps has left behind, whose element is kept in `step`
StepPointer(idx) == <<[live |-> TRUE, idx |-> idx, step |-> NewStep("")]>>
Stale(step) == <<[live |-> FALSE, idx |-> 0, step |-> step]>>

\* the Step a pointer points to
Target(inst) ==
    IF inst.held[1].live THEN inst.state[1].Steps[inst.held[1].idx]
    ELSE inst.held[1].step

\* the caller's pointer once Steps has moved to another array or the state
\* has been replaced
LeftBehind(inst) ==
    IF inst.held = Nil \/ ~inst.held[1].live THEN inst.held
    ELSE Stale(Target(inst))

\* the install state after *held = step
Assigned(inst, step) ==
    IF inst.held[1].live
    THEN [inst EXCEPT !.state[1].Steps[inst.held[1].idx] = step]
    ELSE [inst EXCEPT !.held = Stale(step)]

\* state.json: absent, a JSON document, bytes that are not JSON, or a path
\* that os.WriteFile and os.Remove cannot replace (a non-empty directory)
NoStateFile == [kind |-> "missing"]
StateFile(doc) == [kind |-> "doc", doc |-> doc]
BrokenStateFile == [kind |-> "corrupt"]
BlockedStateFile == [kind |-> "directory"]

\* JSON values as encoding/json writes them
JString(s) == <<"string", s>>
JNumber(x) == <<"number", Int64(x)>>
JArray(seq) == <<"array", seq>>
\* a time.Time in RFC 3339; the zero time is year 1
JTime(t) == <<"rfc3339", IF t = Nil THEN 0 ELSE t[1]>>

\* the fields of a Step that json.Marshal writes: omitempty leaves out nil
\* pointers and empty strings
StepKeys(step) ==
    {"name", "status"}
        \cup (IF step.StartedAt # Nil THEN {"started_at"} ELSE {})
        \cup (IF step.CompletedAt # Nil THEN {"completed_at"} ELSE {})
        \cup (IF step.Error # "" THEN {"error"} ELSE {})

MarshalStep(step) ==
    [k \in StepKeys(step) |->
        CASE k = "name" -> JString(step.Name)
          [] k = "status" -> JString(step.Status)
          [] k = "started_at" -> JTime(step.StartedAt)
          [] k = "completed_at" -> JTime(step.CompletedAt)
          [] k = "error" -> JString(step.Error)]

\* the fields of an InstallState that json.Marshal writes: started_at and
\* steps always, the others unless empty
StateKeys(st) ==
    {"started_at", "steps"}
        \cup (IF st.CompletedAt # Nil THEN {"completed_at"} ELSE {})
        \cup (IF st.ArchiveChecksum # "" THEN {"archive_checksum"} ELSE {})
        \cup (IF st.InstallDir # "" THEN {"install_dir"} ELSE {})
        \cup (IF st.SteamUserID # "" THEN {"steam_user_id"} ELSE {})
        \cup (IF st.AppID # Zero32 THEN {"app_id"} ELSE {})

\* faulty variant of Marshal: the steps are written as an empty array
Marshal_NoSteps(st) ==
    [k \in {"started_at", "steps"} |->
        IF k = "steps" THEN JArray(<<>>) ELSE JTime(st.StartedAt)]

\* json.MarshalIndent(m.state, "", "  ")
Marshal(st) ==
    [k \in StateKeys(st) |->
        CASE k = "started_at" -> JTime(st.StartedAt)
          [] k = "completed_at" -> JTime(st.CompletedAt)
          [] k = "archive_checksum" -> JString(st.ArchiveChecksum)
          [] k = "install_dir" -> JString(st.InstallDir)
          [] k = "steam_user_id" -> JString(st.SteamUserID)
          [] k = "app_id" -> JNumber(st.AppID)
          [] k = "steps" ->
               JArray([i \in 1..Len(st.Steps) |-> MarshalStep(st.Steps[i])])]

\* a time.Time and a *time.Time read back from RFC 3339
TimeOf(j) == IF j[2] = 0 THEN Nil ELSE <<j[2]>>
TimePointerOf(j) == <<j[2]>>

\* the value of a field after json.Unmarshal: that of its key, or what the
\* zero struct holds when the document has no such key
Field(doc, key, zero) == IF key \in DOMAIN doc THEN doc[key] ELSE zero

UnmarshalStep(doc) ==
    [Name |-> Field(doc, "name", JString(""))[2],
     Status |-> Field(doc, "status", JString(""))[2],
     StartedAt |->
        IF "started_at" \in DOMAIN doc
        THEN TimePointerOf(doc["started_at"]) ELSE Nil,
     CompletedAt |->
        IF "completed_at" \in DOMAIN doc
        THEN TimePointerOf(doc["completed_at"]) ELSE Nil,
     Error |-> Field(doc, "error", JString(""))[2]]

\* json.Unmarshal(data, &InstallState{})
Unmarshal(doc) ==
    [StartedAt |-> TimeOf(Field(doc, "started_at", JTime(Nil))),
     CompletedAt |->
        IF "completed_at" \in DOMAIN doc
        THEN TimePointerOf(doc["completed_at"]) ELSE Nil,
     ArchiveChecksum |-> Field(doc, "archive_checksum", JString(""))[2],
     InstallDir |-> Field(doc, "install_dir", JString(""))[2],
     SteamUserID |-> Field(doc, "steam_user_id", JString(""))[2],
     AppID |-> ToUint32(Field(doc, "app_id", JNumber(Zero32))[2]),
     Steps |->
        LET steps == Field(doc, "steps", JArray(<<>>))[2]
        IN  [i \in 1..Len(steps) |-> UnmarshalStep(steps[i])]]

\* m.state after loadState, which assigns it only when state.json was read
\* and parsed
LoadState(disk) ==
    IF disk.kind = "doc" THEN <<Unmarshal(disk.doc)>> ELSE Nil

\* what the caller assigns to the fields of the state it was handed
InstallDirs == {"", "/test/game"}
SteamUserIDs == {"", "12345"}
AppIDs == {Zero32, ToUint32(123456789)}

\* what an operation of the state package returns or was handed
InstallResult(op, err, arg) == [op |-> op, err |-> err, arg |-> arg]

(****************************** actions ************************************)
\* no AddShortcut call is inside its retry loop
Idle ==
    [pc |-> "idle", shortcut |-> ZeroShortcut, shortcuts |-> NoShortcuts,
     appID |-> Zero32, offset |-> 0, attempts |-> 0]

Init ==
    /\ file \in {Missing, ZeroLength, Unreadable, Corrupt}
    /\ ret = Result("none", "", Zero32, FALSE, NoShortcuts, ZeroShortcut, Zero32, 0)
    /\ run = <<>>
    /\ input = NoShortcuts
    /\ call = Idle
    /\ callers = NoCallers
    /\ install = NoInstall

\* a caller runs GenerateAppID alone
Generate ==
    /\ \E n \in RandInt(rangeSize) :
          ret' = Result("generate", "", GenerateAppID(n), FALSE, NoShortcuts,
                        ZeroShortcut, Zero32, n)
    /\ run' = <<>>
    /\ UNCHANGED <<file, input, call, callers, install>>

\* a caller runs GenerateAppID and the random source fails
GenerateFails ==
    /\ ret' = Result("generate", "failed to generate random AppID", Zero32,
                     FALSE, NoShortcuts, ZeroShortcut, Zero32, 0)
    /\ run' = <<>>
    /\ UNCHANGED <<file, input, call, callers, install>>

\* a caller runs ReadShortcuts alone
Read ==
    /\ IF ReadError(file) # ""
       THEN ret' = Result("read", ReadError(file), Zero32, FALSE, NoShortcuts,
                          ZeroShortcut, Zero32, 0)
       ELSE \E shortcuts \in ReadResults(file) :
               ret' = Result("read", "", Zero32, FALSE, shortcuts,
                             ZeroShortcut, Zero32, 0)
    /\ run' = <<>>
    /\ UNCHANGED <<file, input, call, callers, install>>

\* AddShortcut when ReadShortcuts fails
AddReadFails ==
    \E shortcut \in InputShortcuts :
        /\ ReadError(file) # ""
        /\ ret' = Result("add", ReadError(file), Zero32, FALSE, NoShortcuts,
                         shortcut, Zero32, 0)
        /\ run' = <<>>
        /\ UNCHANGED <<file, input, call, callers, install>>

\* AddShortcut finds an entry of the same name
AddExisting ==
    \E shortcut \in InputShortcuts, shortcuts \in ReadResults(file) :
        /\ ReadError(file) = ""
        /\ FirstByName(shortcuts, shortcut.AppName) # 0
        /\ ret' = Result("add", "",
                         shortcuts[FirstByName(shortcuts, shortcut.AppName)].AppID,
                         FALSE, NoShortcuts, shortcut, Zero32, 0)
        /\ run' = <<>>
        /\ UNCHANGED <<file, input, call, callers, install>>

\* AddShortcut of a new name with AppID 0: the loop ends with the first
\* candidate that is in no entry, drawn as offset n; the model follows
\* collections of up to `limit` entries
AddGeneratedWithin(limit) ==
    \E shortcut \in InputShortcuts, shortcuts \in ReadResults(file),
       n \in RandInt(rangeSize) :
        /\ ReadError(file) = ""
        /\ FirstByName(shortcuts, shortcut.AppName) = 0
        /\ shortcut.AppID = Zero32
        /\ ~Conflict(shortcuts, GenerateAppID(n))
        /\ Len(shortcuts) < limit
        /\ LET added == [shortcut EXCEPT !.AppID = GenerateAppID(n)]
           IN  /\ file' = WriteShortcuts(Append(shortcuts, added))
               /\ ret' = Result("add", "", added.AppID, TRUE, NoShortcuts,
                                shortcut, Zero32, n)
               /\ run' = Append(run, added.AppID)
               /\ UNCHANGED <<input, call, callers, install>>

AddGenerated == AddGeneratedWithin(MaxShortcuts)

\* AddShortcut of a new name with AppID 0 when the random source fails
AddGenerateFails ==
    \E shortcut \in InputShortcuts, shortcuts \in ReadResults(file) :
        /\ ReadError(file) = ""
        /\ FirstByName(shortcuts, shortcut.AppName) = 0
        /\ shortcut.AppID = Zero32
        /\ ret' = Result("add", "failed to generate random AppID", Zero32,
                         FALSE, NoShortcuts, shortcut, Zero32, 0)
        /\ run' = <<>>
        /\ UNCHANGED <<file, input, call, callers, install>>

\* AddShortcut of a new name with the AppID the caller set, for the callers'
\* shortcuts `given`
AddSuppliedWithin(given, limit) ==
    \E shortcut \in given, shortcuts \in ReadResults(file) :
        /\ ReadError(file) = ""
        /\ FirstByName(shortcuts, shortcut.AppName) = 0
        /\ shortcut.AppID # Zero32
        /\ Len(shortcuts) < limit
        /\ file' = WriteShortcuts(Append(shortcuts, shortcut))
        /\ ret' = Result("add", "", shortcut.AppID, TRUE, NoShortcuts,
                         shortcut, Zero32, 0)
        /\ run' = <<>>
        /\ UNCHANGED <<input, call, callers, install>>

AddSupplied == AddSuppliedWithin(InputShortcuts, MaxShortcuts)

AddShortcut ==
    \/ AddReadFails
    \/ AddExisting
    \/ AddGenerated
    \/ AddGenerateFails
    \/ AddSupplied

\* UpdateShortcut when ReadShortcuts fails
UpdateReadFails ==
    \E shortcut \in InputShortcuts :
        /\ ReadError(file) # ""
        /\ ret' = Result("update", ReadError(file), Zero32, FALSE, NoShortcuts,
                         shortcut, Zero32, 0)
        /\ run' = <<>>
        /\ UNCHANGED <<file, input, call, callers, install>>

\* faulty variant of UpdateMiss: the collection is written back although
\* nothing was found
UpdateMiss_Writes ==
    \E shortcut \in InputShortcuts, shortcuts \in ReadResults(file) :
        /\ ReadError(file) = ""
        /\ FirstByAppID(shortcuts, shortcut.AppID) = 0
        /\ file' = WriteShortcuts(shortcuts)
        /\ ret' = Result("update", "not found", Zero32, FALSE, NoShortcuts,
                         shortcut, Zero32, 0)
        /\ run' = <<>>
        /\ UNCHANGED <<input, call, callers, install>>

\* UpdateShortcut when no entry has the AppID
UpdateMiss ==
    \E shortcut \in InputShortcuts, shortcuts \in ReadResults(file) :
        /\ ReadError(file) = ""
        /\ FirstByAppID(shortcuts, shortcut.AppID) = 0
        /\ ret' = Result("update", "not found", Zero32, FALSE, NoShortcuts,
                         shortcut, Zero32, 0)
        /\ run' = <<>>
        /\ UNCHANGED <<file, input, call, callers, install>>

\* faulty variant of UpdateHit: the entry is replaced where it is stored and
\* the rest of the file is kept
UpdateHit_InPlace ==
    \E shortcut \in InputShortcuts, order \in Orders(EntryKeys(file)) :
        LET shortcuts == ReadShortcuts(file, order)
            hit == FirstByAppID(shortcuts, shortcut.AppID)
        IN  /\ ReadError(file) = ""
            /\ hit # 0
            /\ file' = [file EXCEPT !.map["shortcuts"].m[order[hit]] =
                                       M(toVDFMap(shortcut))]
            /\ ret' = Result("update", "", Zero32, FALSE, NoShortcuts,
                             shortcut, Zero32, 0)
            /\ run' = <<>>
            /\ UNCHANGED <<input, call, callers, install>>

\* UpdateShortcut when an entry has the AppID
UpdateHit ==
    \E shortcut \in InputShortcuts, shortcuts \in ReadResults(file) :
        /\ ReadError(file) = ""
        /\ FirstByAppID(shortcuts, shortcut.AppID) # 0
        /\ file' = WriteShortcuts([shortcuts EXCEPT
                      ![FirstByAppID(shortcuts, shortcut.AppID)] = shortcut])
        /\ ret' = Result("update", "", Zero32, FALSE, NoShortcuts, shortcut,
                         Zero32, 0)
        /\ run' = <<>>
        /\ UNCHANGED <<input, call, callers, install>>

UpdateShortcut == UpdateReadFails \/ UpdateMiss \/ UpdateHit

FindShortcutByName ==
    /\ \E name \in Names :
          IF ReadError(file) # ""
          THEN ret' = Result("find", ReadError(file), Zero32, FALSE, NoShortcuts,
                             [ZeroShortcut EXCEPT !.AppName = name], Zero32, 0)
          ELSE \E shortcuts \in ReadResults(file) :
                  ret' = Result("find", "", Zero32, FALSE,
                                IF FirstByName(shortcuts, name) = 0
                                THEN NoShortcuts
                                ELSE <<shortcuts[FirstByName(shortcuts, name)]>>,
                                [ZeroShortcut EXCEPT !.AppName = name], Zero32, 0)
    /\ run' = <<>>
    /\ UNCHANGED <<file, input, call, callers, install>>

\* every AppID a caller may name: the supplied ones and the generated ones
KnownIDs == SuppliedIDs \cup {GenerateAppID(n) : n \in RandInt(rangeSize)}

\* faulty variant of RemoveReadFails: the read error is dropped and the empty
\* slice is written
RemoveReadFails_Writes ==
    \E appID \in KnownIDs :
        /\ ReadError(file) # ""
        /\ file' = WriteShortcuts(NoShortcuts)
        /\ ret' = Result("remove", "", Zero32, FALSE, NoShortcuts,
                         ZeroShortcut, appID, 0)
        /\ run' = <<>>
        /\ UNCHANGED <<input, call, callers, install>>

\* RemoveShortcut when ReadShortcuts fails
RemoveReadFails ==
    \E appID \in KnownIDs :
        /\ ReadError(file) # ""
        /\ ret' = Result("remove", ReadError(file), Zero32, FALSE, NoShortcuts,
                         ZeroShortcut, appID, 0)
        /\ run' = <<>>
        /\ UNCHANGED <<file, input, call, callers, install>>

\* RemoveShortcut when the file was read
RemoveWrites ==
    \E appID \in KnownIDs, shortcuts \in ReadResults(file) :
        /\ ReadError(file) = ""
        /\ file' = WriteShortcuts(Filtered(shortcuts, appID))
        /\ ret' = Result("remove", "", Zero32, FALSE, NoShortcuts,
                         ZeroShortcut, appID, 0)
        /\ run' = <<>>
        /\ UNCHANGED <<input, call, callers, install>>

RemoveShortcut == RemoveReadFails \/ RemoveWrites

Next ==
    \/ Generate
    \/ GenerateFails
    \/ Read
    \/ AddShortcut
    \/ UpdateShortcut
    \/ FindShortcutByName
    \/ RemoveShortcut

Spec == Init /\ [][Next]_vars

(********************** write followed by read *****************************)
InitRoundTrip ==
    /\ file \in {Missing, NoDirectory, ZeroLength, Corrupt}
    /\ ret = Result("none", "", Zero32, FALSE, NoShortcuts, ZeroShortcut, Zero32, 0)
    /\ run = <<>>
    /\ input \in UNION {[1..n -> TaggedShortcuts] : n \in 0..MaxShortcuts}
    /\ call = Idle
    /\ callers = NoCallers
    /\ install = NoInstall

\* a caller runs WriteShortcuts alone, with the slice held in `input`
Write ==
    /\ file' = WriteShortcuts(input)
    /\ ret' = Result("write", "", Zero32, FALSE, NoShortcuts, ZeroShortcut,
                     Zero32, 0)
    /\ run' = <<>>
    /\ UNCHANGED <<input, call, callers, install>>

NextRoundTrip == Write \/ Read

SpecRoundTrip == InitRoundTrip /\ [][NextRoundTrip]_vars

(**************** write followed by one add and by reads ********************)
\* an AppID of the Steam catalog, outside the reserved range: 480
CatalogIDs == {<<0, 480>>}

\* shortcuts whose AppID a caller took from the catalog
CatalogShortcuts ==
    {[NewShortcut(n, e) EXCEPT !.AppID = id] :
        n \in Names, e \in ExePaths, id \in CatalogIDs}

\* a caller adds one shortcut to the file as it was found or as WriteShortcuts
\* left it, so that the collection can hold one entry more than a written one
AddAfterWrite ==
    /\ ret.op \in {"none", "write"}
    /\ \/ AddExisting
       \/ AddGeneratedWithin(MaxShortcuts + 1)
       \/ AddSuppliedWithin(InputShortcuts \cup CatalogShortcuts,
                            MaxShortcuts + 1)

NextAppend == Write \/ AddAfterWrite \/ Read

SpecAppend == InitRoundTrip /\ [][NextAppend]_vars

(******************* AddShortcut, one loop pass at a time ******************)
\* AddShortcut up to its first GenerateAppID call, which draws offset n
AddBegin ==
    \E shortcut \in InputShortcuts, shortcuts \in ReadResults(file),
       n \in RandInt(rangeSize) :
        /\ call.pc = "idle"
        /\ ReadError(file) = ""
        /\ FirstByName(shortcuts, shortcut.AppName) = 0
        /\ shortcut.AppID = Zero32
        /\ Len(shortcuts) < MaxShortcuts
        /\ call' = [pc |-> "loop", shortcut |-> shortcut,
                    shortcuts |-> shortcuts, appID |-> GenerateAppID(n),
                    offset |-> n, attempts |-> 1]
        /\ UNCHANGED <<file, ret, run, input, callers, install>>

\* one pass of the loop that finds a conflict and draws again; the loop has
\* no cap of its own, the model stops counting one past RetryCap
AddRetry ==
    \E n \in RandInt(rangeSize) :
        /\ call.pc = "loop"
        /\ Conflict(call.shortcuts, call.appID)
        /\ call.attempts <= RetryCap
        /\ call' = [call EXCEPT !.appID = GenerateAppID(n), !.offset = n,
                                !.attempts = @ + 1]
        /\ UNCHANGED <<file, ret, run, input, callers, install>>

\* one pass of the loop that finds a conflict and the random source fails
AddRetryFails ==
    /\ call.pc = "loop"
    /\ Conflict(call.shortcuts, call.appID)
    /\ ret' = Result("add", "failed to generate random AppID", Zero32, FALSE,
                     NoShortcuts, call.shortcut, Zero32, 0)
    /\ run' = <<>>
    /\ call' = Idle
    /\ UNCHANGED <<file, input, callers, install>>

\* the pass of the loop that finds no conflict, and the rest of AddShortcut
AddFinish ==
    /\ call.pc = "loop"
    /\ ~Conflict(call.shortcuts, call.appID)
    /\ LET added == [call.shortcut EXCEPT !.AppID = call.appID]
       IN  /\ file' = WriteShortcuts(Append(call.shortcuts, added))
           /\ ret' = Result("add", "", added.AppID, TRUE, NoShortcuts,
                            call.shortcut, Zero32, call.offset)
           /\ run' = Append(run, added.AppID)
    /\ call' = Idle
    /\ UNCHANGED <<input, callers, install>>

\* the calls that do not enter the loop run while no call is inside it
NextRetry ==
    \/ AddBegin
    \/ AddRetry
    \/ AddRetryFails
    \/ AddFinish
    \/ (call.pc = "idle" /\ AddExisting)
    \/ (call.pc = "idle" /\ AddSupplied)
    \/ (call.pc = "idle" /\ UpdateHit)
    \/ (call.pc = "idle" /\ RemoveWrites)

SpecRetry == Init /\ [][NextRetry]_vars

(***************************** the factory **********************************)
\* names of directories and files
PathElements == {"path", "to", "with spaces", "game.exe"}

\* one to three elements with separators between them
Relative ==
    {<<a>> : a \in PathElements}
    \cup {<<a, "/", b>> : a \in PathElements, b \in PathElements}
    \cup {<<a, "/", b, "/", c>> :
            a \in PathElements, b \in PathElements, c \in PathElements}

\* the paths of executables handed to NewShortcut, relative and absolute
FilePaths == Relative \cup {<<"/">> \o p : p \in Relative}

\* a caller runs NewShortcut; the arguments are kept in ret.arg, the result
\* in ret.shortcuts
New ==
    \E appName \in Names, exePath \in FilePaths :
        /\ ret' = Result("new", "", Zero32, FALSE,
                         <<NewShortcut(appName, exePath)>>,
                         [ZeroShortcut EXCEPT !.AppName = appName,
                                              !.Exe = Str(exePath)],
                         Zero32, 0)
        /\ UNCHANGED <<file, run, input, call, callers, install>>

SpecNew == Init /\ [][New]_vars

(************** a file that another program has written *********************)
\* what such a file may hold beside the shortcuts this package writes: a
\* string under "appid", a uint32 under "AppName", a string under "tags", a
\* uint32 among the tags, a string among the children of "shortcuts", and a
\* second top-level key
Oddities == {"appid", "AppName", "tags", "tag", "extra", "child", "top"}

\* the value of another type that stands in the place of v
OfOtherType(v) == IF v.type = "string" THEN U(One32) ELSE S("1")

\* the entry of shortcut s with the oddities `odd`
OddEntry(s, odd) ==
    [k \in DOMAIN toVDFMap(s)
              \cup (IF "extra" \in odd THEN {"custom"} ELSE {}) |->
        IF k = "custom" THEN S("x")
        ELSE IF k \in odd THEN OfOtherType(toVDFMap(s)[k])
        ELSE IF k = "tags" /\ "tag" \in odd
        THEN M([j \in DOMAIN s.Tags \cup {"9"} |->
                  IF j = "9" THEN U(One32) ELSE S(s.Tags[j])])
        ELSE toVDFMap(s)[k]]

\* the decoded file that holds shortcut s with the oddities `odd`
OddFile(s, odd) ==
    Vdf([t \in {"shortcuts"} \cup (IF "top" \in odd THEN {"other"} ELSE {}) |->
           IF t = "shortcuts"
           THEN M([k \in {"0"} \cup (IF "child" \in odd THEN {"1"} ELSE {}) |->
                     IF k = "0" THEN M(OddEntry(s, odd)) ELSE S("junk")])
           ELSE M([k \in {"0"} |-> S("x")])])

\* a file holding one of the shortcuts with some of the oddities is on disk;
\* `input` keeps the shortcut
InitOdd ==
    /\ \E s \in TaggedShortcuts, odd \in SUBSET Oddities :
          /\ file = OddFile(s, odd)
          /\ input = <<s>>
    /\ ret = Result("none", "", Zero32, FALSE, NoShortcuts, ZeroShortcut, Zero32, 0)
    /\ run = <<>>
    /\ call = Idle
    /\ callers = NoCallers
    /\ install = NoInstall

SpecOdd == InitOdd /\ [][Read]_vars

(**************** mutating calls on files with foreign content *************)
\* the file of OddFile with the shortcuts of `beside` as further children of
\* "shortcuts", after the keys OddFile uses
OddFileBeside(s, odd, beside) ==
    LET f == OddFile(s, odd)
        sm == f.map["shortcuts"].m
        more == {Itoa(i + 1) : i \in 1..Len(beside)}
    IN  Vdf([t \in DOMAIN f.map |->
               IF t = "shortcuts"
               THEN M([k \in DOMAIN sm \cup more |->
                         IF k \in DOMAIN sm THEN sm[k]
                         ELSE M(toVDFMap(beside[
                                  CHOOSE i \in 1..Len(beside) : Itoa(i + 1) = k]))])
               ELSE f.map[t]])

\* a file holding one of the shortcuts with some of the oddities, alone or
\* beside a well-formed entry of another name and AppID, is on disk; `input`
\* keeps the shortcuts
InitRewrite ==
    /\ \E s \in TaggedShortcuts, odd \in SUBSET Oddities :
          \E beside \in {<<>>} \cup
                {<<t>> : t \in {x \in TaggedShortcuts :
                                   /\ x.AppName # s.AppName
                                   /\ x.AppID # s.AppID}} :
              /\ file = OddFileBeside(s, odd, beside)
              /\ input = <<s>> \o beside
    /\ ret = Result("none", "", Zero32, FALSE, NoShortcuts, ZeroShortcut, Zero32, 0)
    /\ run = <<>>
    /\ call = Idle
    /\ callers = NoCallers
    /\ install = NoInstall

\* the first call on the file: the calls after it find a file that write
\* has stored
FirstCall == ret.op = "none"

NextRewrite ==
    \/ FirstCall /\ AddExisting
    \/ FirstCall /\ AddGeneratedWithin(MaxShortcuts + 1)
    \/ FirstCall /\ AddSuppliedWithin(InputShortcuts, MaxShortcuts + 1)
    \/ FirstCall /\ UpdateMiss
    \/ FirstCall /\ UpdateHit
    \/ FirstCall /\ RemoveWrites

SpecRewrite == InitRewrite /\ [][NextRewrite]_vars

(************************* a write that is cut short ***********************)
\* the file holds what an earlier write stored
InitInterrupted ==
    /\ input \in UNION {[1..n -> TaggedShortcuts] : n \in 0..MaxShortcuts}
    /\ file = WriteShortcuts(input)
    /\ ret = Result("none", "", Zero32, FALSE, NoShortcuts, ZeroShortcut, Zero32, 0)
    /\ run = <<>>
    /\ call = Idle
    /\ callers = NoCallers
    /\ install = NoInstall

\* faulty variant of WriteInterrupted: the file is replaced only by a
\* complete one, so a write that is cut short leaves it as it was
WriteInterrupted_KeepsFile ==
    /\ ret' = Result("interrupted", "", Zero32, FALSE, NoShortcuts,
                     ZeroShortcut, Zero32, 0)
    /\ run' = <<>>
    /\ UNCHANGED <<file, input, call, callers, install>>

\* os.WriteFile has opened the file with O_TRUNC and the process ends before
\* it stores a byte: the call does not return
WriteInterrupted ==
    /\ file' = ZeroLength
    /\ ret' = Result("interrupted", "", Zero32, FALSE, NoShortcuts,
                     ZeroShortcut, Zero32, 0)
    /\ run' = <<>>
    /\ UNCHANGED <<input, call, callers, install>>

\* AddShortcut as the call that finds the zero-length file, with a random
\* source that works
AddAfterRead ==
    /\ ret.op \in {"interrupted", "read"}
    /\ file = ZeroLength
    /\ \/ AddGeneratedWithin(MaxShortcuts)
       \/ AddSuppliedWithin(InputShortcuts, MaxShortcuts)

NextInterrupted == Write \/ WriteInterrupted \/ Read \/ AddAfterRead

SpecInterrupted == InitInterrupted /\ [][NextInterrupted]_vars

(************ two calls, the read and the write as separate steps ***********)
\* the files the calls find: none, an empty one, one that cannot be decoded,
\* and one that holds one entry
InitConcurrent ==
    /\ file \in {Missing, ZeroLength, Corrupt}
               \cup {WriteShortcuts(<<s>>) :
                        s \in {x \in InputShortcuts : x.AppID # Zero32}}
    /\ ret = Result("none", "", Zero32, FALSE, NoShortcuts, ZeroShortcut, Zero32, 0)
    /\ run = <<>>
    /\ input = NoShortcuts
    /\ call = Idle
    /\ callers = NoCallers
    /\ install = NoInstall

\* the slice a call builds from the slice it read
Applied(frame, shortcuts) ==
    CASE frame.op = "add" ->
            Append(shortcuts, [frame.arg EXCEPT !.AppID = frame.appID])
      [] frame.op = "update" ->
            IF FirstByAppID(shortcuts, frame.arg.AppID) = 0 THEN shortcuts
            ELSE [shortcuts EXCEPT
                    ![FirstByAppID(shortcuts, frame.arg.AppID)] = frame.arg]
      [] frame.op = "remove" -> Filtered(shortcuts, frame.argID)
      [] OTHER -> shortcuts

\* a call that returns without writing
Returns(frame, err, appID, isNew) ==
    [frame EXCEPT !.pc = "done", !.err = err, !.appID = appID,
                  !.isNew = isNew]

\* a call that goes on to WriteShortcuts
GoesOn(frame, appID, isNew) ==
    [[frame EXCEPT !.pc = "write", !.appID = appID, !.isNew = isNew]
        EXCEPT !.towrite =
            Applied([frame EXCEPT !.appID = appID], frame.shortcuts)]

\* call p has run up to its WriteShortcuts call, or has returned before it
Started(p, frame) ==
    /\ callers' = [frame |-> [callers.frame EXCEPT ![p] = frame],
                   log |-> Append(callers.log, <<p, "read">>)]
    /\ ret' = IF frame.pc = "done"
              THEN Result(frame.op, frame.err, frame.appID, frame.isNew,
                          NoShortcuts, frame.arg, frame.argID, 0)
              ELSE ret
    /\ UNCHANGED <<file, run, input, call, install>>

\* faulty variant of AddReads: a call also finds the entry that another add,
\* which has not written yet, is about to store
AddReads_SeesPending(p) ==
    \E shortcut \in InputShortcuts, shortcuts \in ReadResults(file),
       n \in RandInt(rangeSize), failed \in BOOLEAN :
        LET frame == [IdleFrame EXCEPT !.op = "add", !.arg = shortcut,
                                       !.shortcuts = shortcuts]
            pending == {q \in Callers :
                          /\ callers.frame[q].pc = "write"
                          /\ callers.frame[q].op = "add"
                          /\ callers.frame[q].arg.AppName = shortcut.AppName}
        IN  /\ callers.frame[p].pc = "idle"
            /\ Started(p,
                 IF ReadError(file) # ""
                 THEN Returns(frame, ReadError(file), Zero32, FALSE)
                 ELSE IF FirstByName(shortcuts, shortcut.AppName) # 0
                 THEN Returns(frame, "",
                        shortcuts[FirstByName(shortcuts, shortcut.AppName)].AppID,
                        FALSE)
                 ELSE IF pending # {}
                 THEN Returns(frame, "",
                        callers.frame[CHOOSE q \in pending : TRUE].appID, FALSE)
                 ELSE IF shortcut.AppID # Zero32
                 THEN GoesOn(frame, shortcut.AppID, TRUE)
                 ELSE IF failed \/ Conflict(shortcuts, GenerateAppID(n))
                 THEN Returns(frame, "failed to generate random AppID",
                              Zero32, FALSE)
                 ELSE GoesOn(frame, GenerateAppID(n), TRUE))

\* AddShortcut up to its WriteShortcuts call; `failed` says that the random
\* source fails, n is the offset of the candidate the loop ends with
AddReads(p) ==
    \E shortcut \in InputShortcuts, shortcuts \in ReadResults(file),
       n \in RandInt(rangeSize), failed \in BOOLEAN :
        LET frame == [IdleFrame EXCEPT !.op = "add", !.arg = shortcut,
                                       !.shortcuts = shortcuts]
        IN  /\ callers.frame[p].pc = "idle"
            /\ Started(p,
                 IF ReadError(file) # ""
                 THEN Returns(frame, ReadError(file), Zero32, FALSE)
                 ELSE IF FirstByName(shortcuts, shortcut.AppName) # 0
                 THEN Returns(frame, "",
                        shortcuts[FirstByName(shortcuts, shortcut.AppName)].AppID,
                        FALSE)
                 ELSE IF shortcut.AppID # Zero32
                 THEN GoesOn(frame, shortcut.AppID, TRUE)
                 ELSE IF failed \/ Conflict(shortcuts, GenerateAppID(n))
                 THEN Returns(frame, "failed to generate random AppID",
                              Zero32, FALSE)
                 ELSE GoesOn(frame, GenerateAppID(n), TRUE))

\* UpdateShortcut up to its WriteShortcuts call
UpdateReads(p) ==
    \E shortcut \in InputShortcuts, shortcuts \in ReadResults(file) :
        LET frame == [IdleFrame EXCEPT !.op = "update", !.arg = shortcut,
                                       !.shortcuts = shortcuts]
        IN  /\ callers.frame[p].pc = "idle"
            /\ Started(p,
                 IF ReadError(file) # ""
                 THEN Returns(frame, ReadError(file), Zero32, FALSE)
                 ELSE IF FirstByAppID(shortcuts, shortcut.AppID) = 0
                 THEN Returns(frame, "not found", Zero32, FALSE)
                 ELSE GoesOn(frame, Zero32, FALSE))

\* RemoveShortcut up to its WriteShortcuts call
RemoveReads(p) ==
    \E appID \in KnownIDs, shortcuts \in ReadResults(file) :
        LET frame == [IdleFrame EXCEPT !.op = "remove", !.argID = appID,
                                       !.shortcuts = shortcuts]
        IN  /\ callers.frame[p].pc = "idle"
            /\ Started(p,
                 IF ReadError(file) # ""
                 THEN Returns(frame, ReadError(file), Zero32, FALSE)
                 ELSE GoesOn(frame, Zero32, FALSE))

\* faulty variant of CallerWrites: the call reads the file again and writes
\* what its change makes of the slice found then
CallerWrites_Merged(p) ==
    \E shortcuts \in ReadResults(file) :
        /\ callers.frame[p].pc = "write"
        /\ file' = WriteShortcuts(Applied(callers.frame[p], shortcuts))
        /\ callers' = [frame |-> [callers.frame EXCEPT ![p].pc = "done"],
                       log |-> Append(callers.log, <<p, "write">>)]
        /\ ret' = Result(callers.frame[p].op, "", callers.frame[p].appID,
                         callers.frame[p].isNew, NoShortcuts,
                         callers.frame[p].arg, callers.frame[p].argID, 0)
        /\ UNCHANGED <<run, input, call, install>>

\* the WriteShortcuts call of call p and its return
CallerWrites(p) ==
    /\ callers.frame[p].pc = "write"
    /\ file' = WriteShortcuts(callers.frame[p].towrite)
    /\ callers' = [frame |-> [callers.frame EXCEPT ![p].pc = "done"],
                   log |-> Append(callers.log, <<p, "write">>)]
    /\ ret' = Result(callers.frame[p].op, "", callers.frame[p].appID,
                     callers.frame[p].isNew, NoShortcuts,
                     callers.frame[p].arg, callers.frame[p].argID, 0)
    /\ UNCHANGED <<run, input, call, install>>

NextConcurrent ==
    \E p \in Callers :
        \/ AddReads(p)
        \/ UpdateReads(p)
        \/ RemoveReads(p)
        \/ CallerWrites(p)

SpecConcurrent == InitConcurrent /\ [][NextConcurrent]_vars

(************************ steps of an install state *************************)
\* &state.InstallState{Steps: make([]state.Step, 0)}
InitSteps ==
    /\ file = Missing
    /\ ret = Result("none", "", Zero32, FALSE, NoShortcuts, ZeroShortcut, Zero32, 0)
    /\ run = <<>>
    /\ input = NoShortcuts
    /\ call = Idle
    /\ callers = NoCallers
    /\ install = [NoInstall EXCEPT !.state = <<ZeroInstallState>>]

\* (*InstallState).AddStep; the caller takes the pointer returned, or goes on
\* with the pointer it has, which append leaves behind when it moves Steps to
\* a larger array
AddStep ==
    \E name \in StepNames, taken \in BOOLEAN :
        LET steps == install.state[1].Steps
        IN  /\ install.state # Nil
            /\ Len(steps) < MaxSteps
            /\ install' =
                 [install EXCEPT
                    !.state[1].Steps = Append(steps, NewStep(name)),
                    !.held = IF taken THEN StepPointer(Len(steps) + 1)
                             ELSE IF Len(steps) = Cap(Len(steps))
                             THEN LeftBehind(install)
                             ELSE @]
            /\ ret' = InstallResult("addstep", "", name)
            /\ UNCHANGED <<file, run, input, call, callers>>

\* step.Start()
StartStep ==
    \E now \in Times :
        /\ install.held # Nil
        /\ install' = Assigned(install, Start(Target(install), now))
        /\ ret' = InstallResult("start", "", Nil)
        /\ UNCHANGED <<file, run, input, call, callers>>

\* step.Complete()
CompleteStep ==
    \E now \in Times :
        /\ install.held # Nil
        /\ install' = Assigned(install, Complete(Target(install), now))
        /\ ret' = InstallResult("complete", "", Nil)
        /\ UNCHANGED <<file, run, input, call, callers>>

\* step.Fail(err)
FailStep ==
    \E now \in Times, err \in Errors :
        /\ install.held # Nil
        /\ install' = Assigned(install, Fail(Target(install), now, err))
        /\ ret' = InstallResult("fail", "", err)
        /\ UNCHANGED <<file, run, input, call, callers>>

\* step.Skip()
SkipStep ==
    /\ install.held # Nil
    /\ install' = Assigned(install, Skip(Target(install)))
    /\ ret' = InstallResult("skip", "", Nil)
    /\ UNCHANGED <<file, run, input, call, callers>>

NextSteps == AddStep \/ StartStep \/ CompleteStep \/ FailStep \/ SkipStep

SpecSteps == InitSteps /\ [][NextSteps]_vars

(************************ the state on disk *********************************)
\* a manager that found no state to load
InitState ==
    /\ file = Missing
    /\ ret = Result("none", "", Zero32, FALSE, NoShortcuts, ZeroShortcut, Zero32, 0)
    /\ run = <<>>
    /\ input = NoShortcuts
    /\ call = Idle
    /\ callers = NoCallers
    /\ \E disk \in {NoStateFile, BrokenStateFile, BlockedStateFile} :
          install = [NoInstall EXCEPT !.disk = disk]

\* NewManager: the new manager holds what loadState read, or nil; a pointer
\* the caller kept points into a state no manager holds, and is let go
NewManager ==
    /\ install' = [install EXCEPT !.state = LoadState(install.disk),
                                  !.held = Nil]
    /\ ret' = InstallResult("newmanager", "", Nil)
    /\ UNCHANGED <<file, run, input, call, callers>>

\* (*Manager).NewInstallState
NewInstallState ==
    \E now \in Times :
        /\ install' =
             [install EXCEPT
                !.state = <<[ZeroInstallState EXCEPT !.StartedAt = <<now>>]>>,
                !.held = Nil]
        /\ ret' = InstallResult("newstate", "", Nil)
        /\ UNCHANGED <<file, run, input, call, callers>>

\* the caller fills in the state it was handed
SetFields ==
    \E dir \in InstallDirs, user \in SteamUserIDs, id \in AppIDs :
        /\ install.state # Nil
        /\ install' = [install EXCEPT !.state[1].InstallDir = dir,
                                      !.state[1].SteamUserID = user,
                                      !.state[1].AppID = id]
        /\ ret' = InstallResult("set", "", Nil)
        /\ UNCHANGED <<file, run, input, call, callers>>

\* (*Manager).SaveState: nothing to do without a state, else state.json is
\* replaced by the document
SaveState ==
    /\ install.state = Nil \/ install.disk # BlockedStateFile
    /\ install' =
         IF install.state = Nil THEN install
         ELSE [install EXCEPT !.disk = StateFile(Marshal(install.state[1]))]
    /\ ret' = InstallResult("save", "", Nil)
    /\ UNCHANGED <<file, run, input, call, callers>>

\* (*Manager).SaveState when os.WriteFile fails
SaveStateFails ==
    /\ install.state # Nil
    /\ install.disk = BlockedStateFile
    /\ ret' = InstallResult("save", "failed to write file", Nil)
    /\ UNCHANGED <<file, run, input, call, callers, install>>

\* (*Manager).ClearState: a state file that is not there is no error
ClearState ==
    /\ install.disk # BlockedStateFile
    /\ install' = [install EXCEPT !.state = Nil,
                                  !.held = Nil,
                                  !.disk = NoStateFile]
    /\ ret' = InstallResult("clear", "", Nil)
    /\ UNCHANGED <<file, run, input, call, callers>>

\* (*Manager).ClearState when os.Remove fails: the state in memory is
\* dropped all the same
ClearStateFails ==
    /\ install.disk = BlockedStateFile
    /\ install' = [install EXCEPT !.state = Nil,
                                  !.held = Nil]
    /\ ret' = InstallResult("clear", "failed to remove state file", Nil)
    /\ UNCHANGED <<file, run, input, call, callers>>

\* the caller saves a state that is on disk after every change it makes to
\* it: the state in memory is the one in state.json, or no state was saved
UpToDate ==
    IF install.disk.kind = "doc"
    THEN install.state # Nil /\ install.disk.doc = Marshal(install.state[1])
    ELSE TRUE

\* the state to be saved holds fewer steps than one that is only kept in
\* memory
Room ==
    /\ install.state # Nil
    /\ Len(install.state[1].Steps) + 1 < MaxSteps

NextState ==
    \/ NewManager
    \/ NewInstallState
    \/ UpToDate /\ SetFields
    \/ UpToDate /\ Room /\ AddStep
    \/ UpToDate /\ StartStep
    \/ UpToDate /\ CompleteStep
    \/ UpToDate /\ FailStep
    \/ UpToDate /\ SkipStep
    \/ SaveState
    \/ SaveStateFails
    \/ ClearState
    \/ ClearStateFails

SpecState == InitState /\ [][NextState]_vars

(************************ the stored collection *****************************)
\* the entry stored under key k of "shortcuts"
Entry(f, k) == parseShortcutEntry(f.map["shortcuts"].m[k].m)

\* the AppIDs of the stored entries
StoredAppIDs(f) == {Entry(f, k).AppID : k \in EntryKeys(f)}

\* the stored entries in the order of their keys "0", "1", ...
Positional(f) ==
    [i \in 1..Cardinality(EntryKeys(f)) |-> Entry(f, Itoa(i - 1))]

(******************************* claims ************************************)
\* C1: two add calls in sequence with the same AppName return the same AppID,
\* the second returns isNew = false, and the collection has the same length
\* after the second call as after the first.
C1_IdempotentAdd ==
    [][(/\ ret.op = "add" /\ ret.err = ""
        /\ ret'.op = "add"
        /\ ret'.arg.AppName = ret.arg.AppName)
       => (/\ ret'.err = ""
           /\ ret'.appID = ret.appID
           /\ ~ret'.isNew
           /\ Cardinality(EntryKeys(file')) = Cardinality(EntryKeys(file)))]_vars

\* C2: no two stored entries have the same non-zero AppID.
C2_AppIDsUnique ==
    \A k1, k2 \in EntryKeys(file) :
        (k1 # k2 /\ Entry(file, k1).AppID # Zero32)
            => Entry(file, k1).AppID # Entry(file, k2).AppID

\* the AppIDs returned by a run of adds of new names with AppID 0 differ
RunDistinct ==
    \A i, j \in 1..Len(run) : i # j => run[i] # run[j]

\* C3: the AppID that add assigns to a new name submitted with AppID 0 is the
\* AppID of no entry of the collection it read, and the AppIDs returned by
\* sequential adds of distinct new names with AppID 0 are pairwise distinct.
C3_FreshAppID ==
    /\ [][(ret'.op = "add" /\ ret'.isNew /\ ret'.arg.AppID = Zero32)
          => ret'.appID \notin StoredAppIDs(file)]_vars
    /\ []RunDistinct

\* two adds in a row were given generated AppIDs, the first one stored
C3_Witness ==
    /\ Len(run) = 2
    /\ ret.op = "add" /\ ret.isNew /\ ret.arg.AppID = Zero32
    /\ run[1] \in StoredAppIDs(file)

InReservedRange(v) == Leq32(minID, v) /\ Leq32(v, maxID)

\* C5: every AppID that generate returns, and every AppID that add assigns to
\* a shortcut submitted with AppID 0, lies in [0xFF000000, 0xFFFFFFFF], and
\* minID + offset does not exceed 2^32 - 1.
C5_GeneratedInRange ==
    ((ret.op = "generate" /\ ret.err = "")
        \/ (ret.op = "add" /\ ret.isNew /\ ret.arg.AppID = Zero32))
    => (/\ InReservedRange(ret.appID)
        /\ ~Carries32(minID, ToUint32(ret.offset)))

\* add assigned the highest AppID the allocator can produce
C5_Witness ==
    /\ ret.op = "add" /\ ret.isNew /\ ret.arg.AppID = Zero32
    /\ ret.offset = rangeSize - 1
    /\ ret.appID \in StoredAppIDs(file)

\* C7: read of a missing path and of a zero-length file returns an empty
\* collection and no error, and leaves the file as it was.
C7_EmptyOrAbsentRead ==
    [][(ret'.op = "read" /\ file.kind \in {"missing", "empty"})
       => (/\ ret'.err = ""
           /\ ret'.shortcuts = NoShortcuts
           /\ file' = file)]_vars

\* read has returned for a path that does not exist
C7_Witness ==
    /\ ret.op = "read" /\ ret.err = "" /\ ret.shortcuts = NoShortcuts
    /\ file.kind = "missing"

\* C8: update with an AppID that no entry has returns NotFound and leaves the
\* file as it was.
C8_UpdateMiss ==
    [][(/\ ret'.op = "update"
        /\ ReadError(file) = ""
        /\ ret'.arg.AppID \notin StoredAppIDs(file))
       => (ret'.err = "not found" /\ file' = file)]_vars

\* update has missed on a file that holds entries
C8_Witness ==
    /\ ret.op = "update" /\ ret.err = "not found"
    /\ EntryKeys(file) # {}
    /\ ret.arg.AppID \notin StoredAppIDs(file)

\* C9: an update that finds its AppID replaces that entry at its position;
\* the length is unchanged and every other entry keeps its position and its
\* field values.
C9_UpdateInPlace ==
    [][(ret'.op = "update" /\ ret'.err = "")
       => \E i \in 1..Len(Positional(file)) :
             /\ Positional(file)[i].AppID = ret'.arg.AppID
             /\ Positional(file') = [Positional(file) EXCEPT ![i] = ret'.arg]]_vars

\* C10: remove deletes the entries of the given AppID and no other; the
\* remaining entries keep their relative order.
C10_RemoveFilters ==
    [][(ret'.op = "remove" /\ ret'.err = "")
       => (/\ file'.kind = "vdf"
           /\ Positional(file') = Filtered(Positional(file), ret'.argID))]_vars

\* C4: the retry loop of add makes at most RetryCap attempts.
C4_RetryBounded == call.attempts <= RetryCap

\* a collection whose AppIDs are in the reserved range and pairwise distinct
ValidCollection(shortcuts) ==
    /\ \A i \in 1..Len(shortcuts) : InReservedRange(shortcuts[i].AppID)
    /\ \A i, j \in 1..Len(shortcuts) :
          i # j => shortcuts[i].AppID # shortcuts[j].AppID

\* C6: read after write(path, S), S a valid collection, returns S: same
\* length, same order, equal entries.
C6_RoundTrip ==
    (/\ ValidCollection(input)
     /\ ret.op = "read" /\ ret.err = ""
     /\ file = WriteShortcuts(input))
        => ret.shortcuts = input

\* C11: remove of an AppID that no entry has returns success and leaves the
\* file as it was, whether the file is missing, zero-length or holds other
\* shortcuts.
C11_RemoveAbsentNoChange ==
    [][(/\ ret'.op = "remove"
        /\ ReadError(file) = ""
        /\ ret'.argID \notin StoredAppIDs(file))
       => (ret'.err = "" /\ file' = file)]_vars

\* what a scan of the stored entries in the order of their keys finds
FoundByName(f, name) ==
    IF FirstByName(Positional(f), name) = 0 THEN NoShortcuts
    ELSE <<Positional(f)[FirstByName(Positional(f), name)]>>

\* C12: findByName returns the first entry, in the order of the sequence,
\* whose AppName is the given name, nothing and no error when there is none
\* or the file is missing, and leaves the file as it was.
C12_FindFirstByName ==
    [][(ret'.op = "find" /\ ReadError(file) = "")
       => (/\ ret'.err = ""
           /\ ret'.shortcuts = FoundByName(file, ret'.arg.AppName)
           /\ file' = file)]_vars

\* C14: add of a name that an entry has returns the AppID of the first such
\* entry with isNew = false and leaves the file as it was.
C14_AddExistingNoWrite ==
    [][(/\ ret'.op = "add"
        /\ ReadError(file) = ""
        /\ FoundByName(file, ret'.arg.AppName) # NoShortcuts)
       => (/\ ret'.err = ""
           /\ ret'.appID = FoundByName(file, ret'.arg.AppName)[1].AppID
           /\ ~ret'.isNew
           /\ file' = file)]_vars

\* C20: when the file cannot be read or decoded, add, update, remove and
\* findByName return that error and leave the file as it was.
C20_ReadErrorPropagates ==
    [][(/\ ret'.op \in {"add", "update", "remove", "find"}
        /\ ReadError(file) # "")
       => (ret'.err = ReadError(file) /\ file' = file)]_vars

\* remove has returned the decode error of a file that vdf.ReadBinary rejects
C20_Witness ==
    /\ ret.op = "remove"
    /\ ret.err = "failed to parse shortcuts VDF"
    /\ file = Corrupt

\* C15: every AppID other than 0 that the file holds lies in
\* [0xFF000000, 0xFFFFFFFF], after any sequence of add, update and remove
\* calls from an empty file.
C15_StoredInRange ==
    \A v \in StoredAppIDs(file) : v # Zero32 => InReservedRange(v)

\* C13: add of a name that no entry has returns isNew = true and writes the
\* entries it found, in their positions, followed by the new entry; the AppID
\* of the new entry is the one returned, and it is the caller's when the
\* caller set one.
C13_AddAppends ==
    [][(/\ ret'.op = "add"
        /\ ReadError(file) = ""
        /\ FoundByName(file, ret'.arg.AppName) = NoShortcuts
        /\ ret'.err # "failed to generate random AppID")
       => (/\ ret'.err = ""
           /\ ret'.isNew
           /\ ret'.arg.AppID # Zero32 => ret'.appID = ret'.arg.AppID
           /\ Positional(file')
                = Append(Positional(file),
                         [ret'.arg EXCEPT !.AppID = ret'.appID]))]_vars

\* both calls have read before either has written, and both have written
BothReadFirst ==
    /\ Len(callers.log) = 4
    /\ callers.log[1][2] = "read"
    /\ callers.log[2][2] = "read"

FirstWriter == callers.frame[callers.log[3][1]]
LastWriter == callers.frame[callers.log[4][1]]

\* C16: when two mutating calls both read before either writes, both return
\* success and the file ends as the collection the last writer built from the
\* slice it read; an entry that only the first writer added is not in it.
C16_LastWriterWins ==
    BothReadFirst =>
        /\ FirstWriter.err = ""
        /\ LastWriter.err = ""
        /\ file = WriteShortcuts(Applied(LastWriter, LastWriter.shortcuts))
        /\ (/\ FirstWriter.op = "add"
            /\ LastWriter.op = "add"
            /\ FirstWriter.arg.AppName # LastWriter.arg.AppName)
           => (/\ FirstWriter.isNew
               /\ FoundByName(file, FirstWriter.arg.AppName) = NoShortcuts)

\* two adds of different names have both returned isNew = true and the file
\* holds one entry
C16_Witness ==
    /\ BothReadFirst
    /\ FirstWriter.op = "add"
    /\ LastWriter.op = "add"
    /\ FirstWriter.arg.AppName # LastWriter.arg.AppName
    /\ FirstWriter.isNew
    /\ LastWriter.isNew
    /\ Cardinality(EntryKeys(file)) = 1

\* shortcut s with the fields zero whose stored value has another type
Lenient(s, odd) ==
    [s EXCEPT !.AppID = IF "appid" \in odd THEN Zero32 ELSE @,
              !.AppName = IF "AppName" \in odd THEN "" ELSE @,
              !.Tags = IF "tags" \in odd THEN [k \in {} |-> ""] ELSE @]

\* C17: read of a well-formed tree does not fail: other top-level keys are
\* ignored, and a known key whose value has the wrong type leaves its field
\* at the zero value while the other fields of the entry are read.
C17_LenientRead ==
    ret.op = "read" =>
        /\ ret.err = ""
        /\ \A odd \in SUBSET Oddities :
              file = OddFile(input[1], odd)
                 => ret.shortcuts = <<Lenient(input[1], odd)>>

\* a file with a second top-level key, a string under "appid" and a uint32
\* among the tags has been read
C17_Witness ==
    /\ ret.op = "read"
    /\ \E odd \in SUBSET Oddities :
          /\ {"top", "appid", "tag"} \subseteq odd
          /\ file = OddFile(input[1], odd)
    /\ Len(ret.shortcuts) = 1
    /\ ret.shortcuts[1].AppID = Zero32
    /\ ret.shortcuts[1].AppName = input[1].AppName

\* the keys and the types of the values of a stored entry
FieldTypes ==
    [appid |-> "uint32", AppName |-> "string", Exe |-> "string",
     StartDir |-> "string", icon |-> "string", ShortcutPath |-> "string",
     LaunchOptions |-> "string", IsHidden |-> "uint32",
     AllowDesktopConfig |-> "uint32", AllowOverlay |-> "uint32",
     OpenVR |-> "uint32", Devkit |-> "uint32", DevkitGameID |-> "string",
     DevkitOverrideAppID |-> "uint32", LastPlayTime |-> "uint32",
     FlatpakAppID |-> "string", tags |-> "map"]

\* the file holds exactly the slice: one top-level key "shortcuts", under it
\* the keys "0" .. "n-1", under key i the 17 fields of the i-th shortcut
Holds(f, shortcuts) ==
    /\ f.kind = "vdf"
    /\ DOMAIN f.map = {"shortcuts"}
    /\ f.map["shortcuts"].type = "map"
    /\ DOMAIN f.map["shortcuts"].m = {Itoa(i) : i \in 0..(Len(shortcuts) - 1)}
    /\ \A i \in 0..(Len(shortcuts) - 1) :
          LET child == f.map["shortcuts"].m[Itoa(i)]
          IN  /\ child.type = "map"
              /\ DOMAIN child.m = DOMAIN FieldTypes
              /\ Cardinality(DOMAIN child.m) = 17
              /\ \A k \in DOMAIN child.m : child.m[k].type = FieldTypes[k]
              /\ \A j \in DOMAIN child.m["tags"].m :
                    child.m["tags"].m[j].type = "string"
              /\ parseShortcutEntry(child.m) = shortcuts[i + 1]

\* C18: write of n shortcuts leaves a file whose root has the single key
\* "shortcuts" with the children "0" .. "n-1", child i holding the i-th
\* shortcut with all 17 fields, whatever was at the path before: no file, no
\* directory, or other content.
C18_WriteLayout ==
    [][ret'.op = "write" => Holds(file', input)]_vars

\* a slice of the greatest length has been written
C18_Witness ==
    /\ ret.op = "write"
    /\ Len(input) = MaxShortcuts
    /\ input[1] # input[MaxShortcuts]
    /\ Holds(file, input)

\* the directory that holds the file named by a path of FilePaths
Parent(path) ==
    IF Len(path) = 1 THEN <<".">>
    ELSE IF Len(path) = 2 THEN <<"/">>
    ELSE SubSeq(path, 1, Len(path) - 2)

\* C19: NewShortcut(name, exePath) has AppName = name, Exe the quoted
\* exePath, StartDir the quoted parent directory of exePath, AppID 0,
\* AllowDesktopConfig and AllowOverlay 1, every other number 0, every other
\* string empty and no tags.
C19_FactoryDefaults ==
    \A appName \in Names, exePath \in FilePaths :
        (/\ ret.op = "new"
         /\ ret.arg.AppName = appName
         /\ ret.arg.Exe = Str(exePath))
        => ret.shortcuts =
             <<[AppID |-> Zero32,
                AppName |-> appName,
                Exe |-> "\"" \o Str(exePath) \o "\"",
                StartDir |-> "\"" \o Str(Parent(exePath)) \o "\"",
                Icon |-> "",
                ShortcutPath |-> "",
                LaunchOptions |-> "",
                IsHidden |-> Zero32,
                AllowDesktopConfig |-> One32,
                AllowOverlay |-> One32,
                OpenVR |-> Zero32,
                Devkit |-> Zero32,
                DevkitGameID |-> "",
                DevkitOverrideAppID |-> Zero32,
                LastPlayTime |-> Zero32,
                FlatpakAppID |-> "",
                Tags |-> [k \in {} |-> ""]]>>

\* NewShortcut("Game A", "/path/to/game.exe") has returned
C19_Witness ==
    /\ ret.op = "new"
    /\ ret.arg.AppName = "Game A"
    /\ ret.arg.Exe = "/path/to/game.exe"
    /\ ret.shortcuts[1].Exe = "\"/path/to/game.exe\""
    /\ ret.shortcuts[1].StartDir = "\"/path/to\""

\* C24: every value from 0xFF000000 to 0xFFFFFFFF, both ends included, is a
\* possible result of generate: for each offset k from 0 to maxID - minID
\* some draw of the random source makes generate return minID + k.
C24_WholeRange ==
    \A k \in RandSamples :
        k <= Int64(Sub32(maxID, minID))
            => ENABLED (Generate /\ ret'.appID = Add32(minID, ToUint32(k)))

\* the steps of the state in memory
StepsOf(inst) == inst.state[1].Steps

\* the operation left alone every step but the one its pointer points to, and
\* every other field of the state
OnlyTarget ==
    /\ install'.held # Nil
    /\ Len(StepsOf(install')) = Len(StepsOf(install))
    /\ \A i \in 1..Len(StepsOf(install)) :
          ~(install.held[1].live /\ install.held[1].idx = i)
             => StepsOf(install')[i] = StepsOf(install)[i]
    /\ [install'.state[1] EXCEPT !.Steps = StepsOf(install)] = install.state[1]

\* C25: AddStep(name) appends a pending step of that name at the end of Steps;
\* Start sets status running and a start time, Complete status completed and
\* a completion time, Fail(err) status failed, a completion time and the
\* message of a non-nil err, Skip status skipped and no other field; each
\* changes only the step it is applied to.
C25_StepStatus ==
    [][/\ ret'.op = "addstep"
          => StepsOf(install')
               = Append(StepsOf(install),
                        [Name |-> ret'.arg, Status |-> "pending",
                         StartedAt |-> Nil, CompletedAt |-> Nil, Error |-> ""])
       /\ ret'.op = "start"
          => /\ OnlyTarget
             /\ Target(install').Status = "running"
             /\ Target(install').StartedAt # Nil
       /\ ret'.op = "complete"
          => /\ OnlyTarget
             /\ Target(install').Status = "completed"
             /\ Target(install').CompletedAt # Nil
       /\ ret'.op = "fail"
          => /\ OnlyTarget
             /\ Target(install').Status = "failed"
             /\ Target(install').CompletedAt # Nil
             /\ ret'.arg # Nil => Target(install').Error = ret'.arg[1]
       /\ ret'.op = "skip"
          => /\ OnlyTarget
             /\ Target(install')
                  = [Target(install) EXCEPT !.Status = "skipped"]]_vars

\* the second of two steps has failed with an error
C25_Witness ==
    /\ ret.op = "fail"
    /\ ret.arg # Nil
    /\ Len(StepsOf(install)) = 2
    /\ install.held # Nil
    /\ install.held[1].live
    /\ install.held[1].idx = 2
    /\ StepsOf(install)[2].Status = "failed"
    /\ StepsOf(install)[2].Error = "test error message"
    /\ StepsOf(install)[1].Status = "completed"


\* the fields and steps a reloaded state shares with the one that was saved
Kept(st) == <<st.InstallDir, st.SteamUserID, st.AppID, st.Steps>>

\* C26: a manager created right after a SaveState of a state loads a state
\* with the same InstallDir, SteamUserID, AppID and steps; ClearState leaves
\* State() nil and, when it returns no error, no state file, so that a
\* manager created next has nil state; ClearState returns no error when
\* there is no state file.
C26_StatePersists ==
    [][/\ (ret.op = "save" /\ ret.err = "" /\ install.state # Nil
              /\ ret'.op = "newmanager")
          => /\ install'.state # Nil
             /\ Kept(install'.state[1]) = Kept(install.state[1])
       /\ ret'.op = "clear"
          => /\ install'.state = Nil
             /\ ret'.err = "" => install'.disk = NoStateFile
             /\ install.disk = NoStateFile => ret'.err = ""
       /\ (ret.op = "clear" /\ ret.err = "" /\ ret'.op = "newmanager")
          => install'.state = Nil]_vars

\* a state with its fields set and a step that failed with an error has been
\* saved and loaded by a new manager
C26_Witness ==
    /\ ret.op = "newmanager"
    /\ install.state # Nil
    /\ install.disk.kind = "doc"
    /\ install.state[1].InstallDir = "/test/game"
    /\ install.state[1].SteamUserID = "12345"
    /\ install.state[1].AppID = ToUint32(123456789)
    /\ Len(install.state[1].Steps) = 1
    /\ install.state[1].Steps[1].StartedAt # Nil
    /\ install.state[1].Steps[1].Status = "failed"
    /\ install.state[1].Steps[1].Error = "test error message"


\* C27: read returns the entries in positional order: the i-th shortcut
\* returned is the entry stored under key i - 1 of "shortcuts", on every
\* call.
C27_ReadPositional ==
    (ret.op = "read" /\ ret.err = "" /\ file.kind = "vdf")
        => ret.shortcuts = Positional(file)


\* the entries a file holds, as parseShortcutEntry reads them
Parsed(f) == {Entry(f, k) : k \in EntryKeys(f)}

\* the file holds nothing but entries as write stores them: the children of
\* "shortcuts" are Objects keyed "0" .. "n-1" and hold the 17 fields
Normal(f) ==
    /\ f.kind = "vdf"
    /\ DOMAIN f.map = {"shortcuts"}
    /\ f.map["shortcuts"].type = "map"
    /\ EntryKeys(f) = DOMAIN f.map["shortcuts"].m
    /\ EntryKeys(f) = {Itoa(i) : i \in 0..(Cardinality(EntryKeys(f)) - 1)}
    /\ Holds(f, Positional(f))

\* the call that has returned wrote the file
Rewrote ==
    /\ ret'.err = ""
    /\ \/ ret'.op = "add" /\ ret'.isNew
       \/ ret'.op \in {"update", "remove"}

\* the entry the call that has returned aimed at
Targeted(e) ==
    \/ ret'.op = "update" /\ e.AppID = ret'.arg.AppID
    \/ ret'.op = "remove" /\ e.AppID = ret'.argID

\* the entry the call that has returned was given to store
Given(e) ==
    \/ ret'.op = "add" /\ e = [ret'.arg EXCEPT !.AppID = ret'.appID]
    \/ ret'.op = "update" /\ e = ret'.arg

\* C28: after a successful mutating call (a new add, an update hit, a remove)
\* the file holds only the key "shortcuts", its children are Objects keyed
\* "0" .. "n-1" with exactly the 17 known keys and values of the right type,
\* and every entry the call did not target is stored as it was parsed, with
\* the zero value where its value had the wrong type.
C28_RewriteNormalises ==
    [][Rewrote =>
        /\ Normal(file')
        /\ \A e \in Parsed(file') : e \in Parsed(file) \/ Given(e)
        /\ \A e \in Parsed(file) : ~Targeted(e) => e \in Parsed(file')]_vars

\* an update has hit the well-formed entry of a file whose other entry had a
\* string under "appid"; the other entry is stored with AppID 0
C28_Witness ==
    /\ ret.op = "update"
    /\ ret.err = ""
    /\ Len(input) = 2
    /\ ret.arg.AppID = input[2].AppID
    /\ Normal(file)
    /\ Parsed(file) = {ret.arg, [input[1] EXCEPT !.AppID = Zero32]}


\* C29: a write cut short after the truncation leaves a zero-length file;
\* the read after it returns the empty collection and no error; an add to
\* the zero-length file returns isNew and no error and stores a collection
\* of that one entry, so the entries written before are gone.
C29_InterruptedWrite ==
    [][/\ ret'.op = "interrupted" => file' = ZeroLength
       /\ (ret.op = "interrupted" /\ ret'.op = "read")
          => (ret'.err = "" /\ ret'.shortcuts = NoShortcuts)
       /\ (ret.op \in {"interrupted", "read"} /\ file = ZeroLength
              /\ ret'.op = "add")
          => /\ ret'.err = ""
             /\ ret'.isNew
             /\ Normal(file')
             /\ Positional(file') = <<[ret'.arg EXCEPT !.AppID = ret'.appID]>>]_vars

\* a write had stored MaxShortcuts entries; after a cut-short write an add
\* has stored its entry, and the file holds no other
C29_Witness ==
    /\ ret.op = "add"
    /\ ret.err = ""
    /\ ret.isNew
    /\ Len(input) = MaxShortcuts
    /\ Normal(file)
    /\ Positional(file) = <<[ret.arg EXCEPT !.AppID = ret.appID]>>


\* both calls are adds of one name with AppID 0, and both have returned
SameNameAdds ==
    /\ \A p \in Callers :
          /\ callers.frame[p].pc = "done"
          /\ callers.frame[p].op = "add"
          /\ callers.frame[p].arg.AppID = Zero32
    /\ \A p, q \in Callers :
          callers.frame[p].arg.AppName = callers.frame[q].arg.AppName

\* both calls read the file before either wrote it
ReadTogether ==
    /\ Len(callers.log) >= 2
    /\ callers.log[1][2] = "read"
    /\ callers.log[2][2] = "read"

\* the call found no entry of its name in the file it read and the random
\* source gave it an AppID
FoundNew(frame) ==
    /\ frame.err = ""
    /\ FirstByName(frame.shortcuts, frame.arg.AppName) = 0

\* C30: two adds of the same new name with AppID 0 that both read the file
\* before either writes both return isNew = true with an AppID of the
\* reserved range; the file then holds exactly one entry of that name, the
\* last writer's, and when the two AppIDs differ the first writer's is not in
\* the file. Two such adds that run one after the other never both return
\* isNew = true.
C30_SameNameRace ==
    /\ (/\ SameNameAdds
        /\ ReadTogether
        /\ \A p \in Callers : FoundNew(callers.frame[p]))
       => /\ \A p \in Callers :
                /\ callers.frame[p].isNew
                /\ InReservedRange(callers.frame[p].appID)
          /\ BothReadFirst
          /\ Cardinality({k \in EntryKeys(file) :
                 Entry(file, k).AppName = LastWriter.arg.AppName}) = 1
          /\ [LastWriter.arg EXCEPT !.AppID = LastWriter.appID] \in Parsed(file)
          /\ FirstWriter.appID # LastWriter.appID
                => FirstWriter.appID \notin StoredAppIDs(file)
    /\ (SameNameAdds /\ \A p \in Callers : callers.frame[p].isNew)
       => ReadTogether

\* two adds of one name have both returned isNew = true with different
\* AppIDs, and the file holds only the last writer's
C30_Witness ==
    /\ SameNameAdds
    /\ BothReadFirst
    /\ \A p \in Callers : callers.frame[p].isNew
    /\ FirstWriter.appID # LastWriter.appID
    /\ FirstWriter.appID \notin StoredAppIDs(file)
    /\ LastWriter.appID \in StoredAppIDs(file)

====
